---- MODULE Spec2Model ----
(***************************************************************************)
(* Model of the two notifier plugins apprise/plugins/NotifyJSON.py and     *)
(* apprise/plugins/NotifyGnome.py: construction, url(), parse_url() and    *)
(* send(), with the collaborators (throttle hook, json.dumps,              *)
(* requests.post, the Gnome notification facility, the image lookup)       *)
(* modelled as nondeterministic outcomes.                                  *)
(***************************************************************************)
EXTENDS Integers, Sequences, FiniteSets, TLC

VARIABLES
    self,       \* the notifier instance (a record of its attributes)
    made,       \* the instance's attributes as the constructor left them
    arg,        \* the constructor arguments the instance was built from
    last,       \* what the last send() did: result, calls made, requests, log
    url,        \* the last value returned by self.url()
    parsed,     \* the last value returned by parse_url(url)
    nsends      \* number of send() calls made on the instance

vars == <<self, made, arg, last, url, parsed, nsends>>

----------------------------------------------------------------------------
(* Bounds of the model *)

MaxSends == 2

----------------------------------------------------------------------------
(* Python values.  A value is a record [t, s, n]: t is the type tag, s the  *)
(* characters of a str, n the number of an int or bool.                    *)

PyNone == [t |-> "none", s |-> <<>>, n |-> 0]
PyInt(i) == [t |-> "int", s |-> <<>>, n |-> i]
PyBool(b) == [t |-> "bool", s |-> <<>>, n |-> IF b THEN 1 ELSE 0]
PyStr(chars) == [t |-> "str", s |-> chars, n |-> 0]
PyObj == [t |-> "object", s |-> <<>>, n |-> 0]

\* Python's ==: bool is a subclass of int, so True == 1 and False == 0.
PyEq(a, b) ==
    IF a.t \in {"int", "bool"} /\ b.t \in {"int", "bool"}
    THEN a.n = b.n
    ELSE a = b

\* Python truthiness, as used by `if self.user`.
Truthy(v) ==
    CASE v.t = "none" -> FALSE
      [] v.t = "str" -> Len(v.s) > 0
      [] v.t \in {"int", "bool"} -> v.n # 0
      [] OTHER -> TRUE

\* utils.compat_is_basestring: is the value a string
compat_is_basestring(v) == v.t = "str"

\* isinstance(v, int): bool is a subclass of int
isinstance_int(v) == v.t \in {"int", "bool"}

\* A dict of str -> str is a function over a finite set of keys.
EmptyDict == [k \in {} |-> ""]

\* dict.update: the entries of `over` replace those of `base`.
DictUpdate(base, over) ==
    [k \in (DOMAIN base) \cup (DOMAIN over) |->
        IF k \in DOMAIN over THEN over[k] ELSE base[k]]

----------------------------------------------------------------------------
(* NotifyJSON: class attributes and constructor *)

protocol == "json"
secure_protocol == "jsons"
app_id == "Apprise"

\* The attributes NotifyBase.__init__ stores from the keyword arguments.
NotifyBase_init(kwargs) ==
    [ cls |-> "NotifyBase",
      secure |-> kwargs.secure,
      host |-> kwargs.host,
      port |-> kwargs.port,
      user |-> kwargs.user,
      password |-> kwargs.password ]

\* kwargs.get('fullpath'): None when the keyword is absent
Absent == [t |-> "absent", s |-> <<>>, n |-> 0]
KwargsGetFullpath(kwargs) ==
    IF kwargs.fullpath = Absent THEN PyNone ELSE kwargs.fullpath

\* NotifyJSON.__init__(headers, **kwargs)
NotifyJSON_init(headers, kwargs) ==
    LET base == NotifyBase_init(kwargs)
        fp == KwargsGetFullpath(kwargs)
    IN  [ cls |-> "NotifyJSON",
          secure |-> base.secure,
          host |-> base.host,
          port |-> base.port,
          user |-> base.user,
          password |-> base.password,
          schema |-> IF base.secure THEN "https" ELSE "http",
          fullpath |-> IF ~compat_is_basestring(fp) THEN PyStr(<<"/">>) ELSE fp,
          headers |-> IF headers.given /\ headers.d # EmptyDict
                      THEN DictUpdate(EmptyDict, headers.d)
                      ELSE EmptyDict ]

----------------------------------------------------------------------------
(* NotifyJSON.url() and NotifyJSON.parse_url()                             *)
(* A URL string is kept as the record of the segments it is formatted      *)
(* from: scheme, auth, hostname, port (PyNone when no ":port" is emitted), *)
(* path, and the query arguments.  A query key is [prefix, name], the      *)
(* prefix being "+", "-" or "".                                            *)

notify_format == "text"
overflow_mode == "upstream"

QKey(prefix, name) == [prefix |-> prefix, name |-> name]

\* NotifyBase.quote(s, safe=''): percent-encode the reserved characters
quote(chars) ==
    [i \in DOMAIN chars |->
        CASE chars[i] = "/" -> "%2F"
          [] chars[i] = "@" -> "%40"
          [] chars[i] = ":" -> "%3A"
          [] OTHER -> chars[i]]

\* The inverse of quote, applied by the base parser to user and password
unquote(chars) ==
    [i \in DOMAIN chars |->
        CASE chars[i] = "%2F" -> "/"
          [] chars[i] = "%40" -> "@"
          [] chars[i] = "%3A" -> ":"
          [] OTHER -> chars[i]]

\* NotifyJSON.url(): lines 93-99, the query arguments
UrlArgs(s) ==
    DictUpdate(
        (QKey("", "format") :> notify_format)
            @@ (QKey("", "overflow") :> overflow_mode),
        [q \in {QKey("+", k) : k \in DOMAIN s.headers} |-> s.headers[q.name]])

\* NotifyJSON.url(): lines 101-111, the auth segment
UrlAuth(s) ==
    IF Truthy(s.user) /\ Truthy(s.password)
    THEN [user |-> PyStr(quote(s.user.s)), password |-> PyStr(quote(s.password.s))]
    ELSE IF Truthy(s.user)
    THEN [user |-> PyStr(quote(s.user.s)), password |-> PyNone]
    ELSE [user |-> PyNone, password |-> PyNone]

\* NotifyJSON.url()
NotifyJSON_url(s) ==
    LET default_port == IF s.secure THEN 443 ELSE 80
    IN  [ valid |-> TRUE,
          schema |-> IF s.secure THEN secure_protocol ELSE protocol,
          auth |-> UrlAuth(s),
          hostname |-> s.host,
          port |-> IF s.port = PyNone \/ PyEq(s.port, PyInt(default_port))
                   THEN PyNone ELSE s.port,
          path |-> <<"/">>,
          args |-> UrlArgs(s) ]

\* The entries of the query string whose key carries `prefix`, keyed by the
\* name that follows the prefix.
Qsd(args, prefix) ==
    [k \in {q.name : q \in {x \in DOMAIN args : x.prefix = prefix}} |->
        args[QKey(prefix, k)]]

\* NotifyBase.parse_url(url): scheme, auth, host, port, path and query
\* string of the URL; a port the URL does not carry is None.
NotifyBase_parse_url(u) ==
    [ valid |-> TRUE,
      schema |-> u.schema,
      secure |-> u.schema = secure_protocol,
      user |-> IF u.auth.user = PyNone THEN PyNone
               ELSE PyStr(unquote(u.auth.user.s)),
      password |-> IF u.auth.password = PyNone THEN PyNone
                   ELSE PyStr(unquote(u.auth.password.s)),
      host |-> u.hostname,
      port |-> u.port,
      fullpath |-> IF Len(u.path) = 0 THEN PyNone ELSE PyStr(u.path),
      qsd |-> Qsd(u.args, ""),
      qsdplus |-> Qsd(u.args, "+"),
      qsdminus |-> Qsd(u.args, "-") ]

\* NotifyJSON.parse_url(url)
NotifyJSON_parse_url(u) ==
    LET results == NotifyBase_parse_url(u)
    IN  IF ~results.valid THEN results
        ELSE [ valid |-> TRUE,
               schema |-> results.schema,
               secure |-> results.secure,
               user |-> results.user,
               password |-> results.password,
               host |-> results.host,
               port |-> results.port,
               fullpath |-> results.fullpath,
               headers |-> DictUpdate(results.qsdminus, results.qsdplus) ]

----------------------------------------------------------------------------
(* NotifyJSON.send() *)

codes_ok == 200
HTTP_ERROR_MAP == {400, 401, 404, 405, 500, 503}

LogEntry(level, what) == [level |-> level, what |-> what]

\* RequestHeaders with the defaults applied after the custom headers
RequestHeaders_DefaultsLast(s) ==
    DictUpdate(
        s.headers,
        ("User-Agent" :> app_id) @@ ("Content-Type" :> "application/json"))

\* send(): lines 140-146, the request headers
RequestHeaders(s) ==
    DictUpdate(
        ("User-Agent" :> app_id) @@ ("Content-Type" :> "application/json"),
        s.headers)

\* send(): lines 148-150, the basic-auth credentials
RequestAuth(s) ==
    IF Truthy(s.user) THEN [user |-> s.user, password |-> s.password]
    ELSE [user |-> PyNone, password |-> PyNone]

\* send(): lines 152-156, the target URL {schema}://{host}[:{port}]{fullpath}
RequestURL(s) ==
    [ schema |-> s.schema,
      host |-> s.host,
      port |-> IF isinstance_int(s.port) THEN PyInt(s.port.n) ELSE PyNone,
      path |-> s.fullpath.s ]

\* json.dumps raises TypeError on a value it cannot serialise
Serialisable(payload) ==
    /\ payload.title.t # "object"
    /\ payload.message.t # "object"

\* Classify without the `except KeyError` of lines 182-185: the lookup of a
\* status code missing from HTTP_ERROR_MAP escapes.
Classify_NoKeyError(outcome) ==
    CASE outcome.kind = "status" /\ outcome.code # codes_ok ->
            IF outcome.code \in HTTP_ERROR_MAP
            THEN [ret |-> "False",
                  logs |-> <<LogEntry("warning", "failed-described")>>]
            ELSE [ret |-> "raised", logs |-> <<>>]
      [] outcome.kind = "status" /\ outcome.code = codes_ok ->
            [ret |-> "True", logs |-> <<LogEntry("info", "sent")>>]
      [] outcome.kind = "RequestException" ->
            [ret |-> "False",
             logs |-> <<LogEntry("warning", "connection-error"),
                        LogEntry("debug", "socket-exception")>>]
      [] OTHER -> [ret |-> "raised", logs |-> <<>>]

\* send(): lines 174-202, what the outcome of requests.post is turned into
Classify(outcome) ==
    CASE outcome.kind = "status" /\ outcome.code # codes_ok ->
            [ret |-> "False",
             logs |-> <<LogEntry("warning",
                          IF outcome.code \in HTTP_ERROR_MAP
                          THEN "failed-described" ELSE "failed-code")>>]
      [] outcome.kind = "status" /\ outcome.code = codes_ok ->
            [ret |-> "True", logs |-> <<LogEntry("info", "sent")>>]
      [] outcome.kind = "RequestException" ->
            [ret |-> "False",
             logs |-> <<LogEntry("warning", "connection-error"),
                        LogEntry("debug", "socket-exception")>>]
      [] OTHER -> [ret |-> "raised", logs |-> <<>>]

\* JSONPrepare with `headers = self.headers` in place of a fresh dict: the
\* defaults are written into the instance's own mapping.
JSONPrepare_AliasHeaders(s, body, title, notify_type) ==
    [ self |-> [s EXCEPT !.headers =
                    DictUpdate(("User-Agent" :> app_id)
                                 @@ ("Content-Type" :> "application/json"),
                               s.headers)],
      payload |-> [version |-> "1.0", title |-> title, message |-> body,
                   type |-> notify_type],
      headers |-> DictUpdate(("User-Agent" :> app_id)
                               @@ ("Content-Type" :> "application/json"),
                             s.headers),
      auth |-> IF Truthy(s.user) THEN [user |-> s.user, password |-> s.password]
               ELSE [user |-> PyNone, password |-> PyNone],
      url |-> [schema |-> s.schema, host |-> s.host,
               port |-> IF isinstance_int(s.port) THEN PyInt(s.port.n)
                        ELSE PyNone,
               path |-> s.fullpath.s],
      logs |-> <<LogEntry("debug", "post-url"), LogEntry("debug", "payload")>> ]

\* send(): lines 129-161, everything before the throttle call
JSONPrepare(s, body, title, notify_type) ==
    [ self |-> s,
      payload |-> [version |-> "1.0", title |-> title, message |-> body,
                   type |-> notify_type],
      headers |-> RequestHeaders(s),
      auth |-> RequestAuth(s),
      url |-> RequestURL(s),
      logs |-> <<LogEntry("debug", "post-url"), LogEntry("debug", "payload")>> ]

\* send(): lines 163-202, the throttle call, the POST and its classification.
\* calls lists the collaborators called, outs what each of them did.
JSONDeliver(p, f) ==
    IF f.throttle = "raise"
    THEN [ret |-> "raised", calls |-> <<"throttle">>, outs |-> <<"raise">>,
          status |-> 0, posts |-> <<>>, logs |-> p.logs]
    ELSE IF ~Serialisable(p.payload)
    THEN [ret |-> "raised", calls |-> <<"throttle", "dumps">>,
          outs |-> <<"ok", "raise">>, status |-> 0, posts |-> <<>>,
          logs |-> p.logs]
    ELSE LET c == Classify(f.post)
         IN  [ret |-> c.ret,
              calls |-> <<"throttle", "dumps", "requests.post">>,
              outs |-> <<"ok", "ok", f.post.kind>>,
              status |-> f.post.code,
              posts |-> <<[url |-> p.url, data |-> p.payload,
                           headers |-> p.headers, auth |-> p.auth]>>,
              logs |-> p.logs \o c.logs]

\* NotifyJSON.send(body, title, notify_type)
NotifyJSON_send(s, body, title, notify_type, f) ==
    LET p == JSONPrepare(s, body, title, notify_type)
        d == JSONDeliver(p, f)
    IN  [who |-> "json", self |-> p.self, ret |-> d.ret, calls |-> d.calls,
         outs |-> d.outs, status |-> d.status, posts |-> d.posts,
         logs |-> d.logs, icon_path |-> PyNone]

----------------------------------------------------------------------------
(* NotifyGnome *)

LOW == 0
NORMAL == 1
HIGH == 2
GNOME_URGENCIES == <<LOW, NORMAL, HIGH>>

\* Python's `x in tuple`
PyIn(x, tuple) == \E i \in DOMAIN tuple : PyEq(x, PyInt(tuple[i]))

\* NotifyGnome.__init__ without the membership test of line 120
NotifyGnome_init_Unchecked(urgency, flag) ==
    [ cls |-> "NotifyGnome", enabled |-> flag, urgency |-> urgency ]

\* NotifyGnome.__init__(urgency=None); flag is the class attribute _enabled,
\* which is NOTIFY_GNOME_SUPPORT_ENABLED unless a test overrides it.
NotifyGnome_init(urgency, flag) ==
    [ cls |-> "NotifyGnome",
      enabled |-> flag,
      urgency |-> IF ~PyIn(urgency, GNOME_URGENCIES) THEN PyInt(NORMAL)
                  ELSE urgency ]

\* Calls `steps` in order until one raises: the calls made and what each did.
RECURSIVE RunCalls(_, _)
RunCalls(steps, f) ==
    IF Len(steps) = 0 THEN [calls |-> <<>>, outs |-> <<>>, raised |-> FALSE]
    ELSE IF f[Head(steps)] = "raise"
    THEN [calls |-> <<Head(steps)>>, outs |-> <<"raise">>, raised |-> TRUE]
    ELSE LET r == RunCalls(Tail(steps), f)
         IN  [calls |-> <<Head(steps)>> \o r.calls,
              outs |-> <<"ok">> \o r.outs,
              raised |-> r.raised]

\* The calls of lines 138-150 with the throttle call left out
GnomeSetupCalls_NoThrottle ==
    <<"Notify.init", "image_path", "Notification.new", "set_urgency">>
GnomeSetupCalls ==
    <<"Notify.init", "image_path", "Notification.new", "set_urgency",
      "throttle">>
GnomeIconCalls ==
    <<"Pixbuf.new_from_file", "set_icon_from_pixbuf", "set_image_from_pixbuf">>
GnomeCalls ==
    {GnomeSetupCalls[i] : i \in DOMAIN GnomeSetupCalls}
        \cup {GnomeIconCalls[i] : i \in DOMAIN GnomeIconCalls}
        \cup {"show"}

\* The icon step without the inner try/except: what it raises propagates.
GnomeIcon_Fatal(icon_path, f) ==
    LET g == IF icon_path = PyNone
             THEN [f EXCEPT !["Pixbuf.new_from_file"] = "raise"]
             ELSE f
        r == RunCalls(<<"Pixbuf.new_from_file", "set_icon_from_pixbuf",
                        "set_image_from_pixbuf">>, g)
    IN  [calls |-> r.calls, outs |-> r.outs, raised |-> r.raised,
         logs |-> <<>>]

\* send(): lines 152-163, the icon is decoded and attached; whatever is
\* raised here is logged and absorbed.  Pixbuf.new_from_file(None) raises.
GnomeIcon(icon_path, f) ==
    LET g == IF icon_path = PyNone
             THEN [f EXCEPT !["Pixbuf.new_from_file"] = "raise"]
             ELSE f
        r == RunCalls(GnomeIconCalls, g)
    IN  [calls |-> r.calls, outs |-> r.outs, raised |-> FALSE,
         logs |-> IF r.raised THEN <<LogEntry("warning", "icon")>> ELSE <<>>]

\* send(): lines 168-171, the handler of the outer try
GnomeFailed(calls, outs, logs) ==
    [ret |-> "False", calls |-> calls, outs |-> outs,
     logs |-> logs \o <<LogEntry("warning", "failed"),
                        LogEntry("exception", "gnome-exception")>>]

\* send(): lines 136-173, the body of the outer try and the final return
GnomeTry(s, body, notify_type, f, icon_path) ==
    LET pre == RunCalls(GnomeSetupCalls, f)
        icon == GnomeIcon(icon_path, f)
    IN  IF pre.raised THEN GnomeFailed(pre.calls, pre.outs, <<>>)
        ELSE IF icon.raised
        THEN GnomeFailed(pre.calls \o icon.calls, pre.outs \o icon.outs,
                         icon.logs)
        ELSE IF f["show"] = "raise"
        THEN GnomeFailed(pre.calls \o icon.calls \o <<"show">>,
                         pre.outs \o icon.outs \o <<"raise">>, icon.logs)
        ELSE [ret |-> "True",
              calls |-> pre.calls \o icon.calls \o <<"show">>,
              outs |-> pre.outs \o icon.outs \o <<"ok">>,
              logs |-> icon.logs \o <<LogEntry("info", "sent")>>]

\* send() without the capability gate
GnomeGate_Missing(s, body, notify_type, f, icon_path) ==
    GnomeTry(s, body, notify_type, f, icon_path)

\* send(): lines 131-134, the capability gate
GnomeGate(s, body, notify_type, f, icon_path) ==
    IF ~s.enabled
    THEN [ret |-> "False", calls |-> <<>>, outs |-> <<>>,
          logs |-> <<LogEntry("warning", "unsupported")>>]
    ELSE GnomeTry(s, body, notify_type, f, icon_path)

\* NotifyGnome.send(body, title, notify_type); f is what each collaborator
\* does when called, icon_path what image_path returns.
NotifyGnome_send(s, body, title, notify_type, f, icon_path) ==
    LET r == GnomeGate(s, body, notify_type, f, icon_path)
    IN  [who |-> "gnome", self |-> s, ret |-> r.ret, calls |-> r.calls,
         outs |-> r.outs, status |-> 0, posts |-> <<>>, logs |-> r.logs,
         icon_path |-> IF "image_path" \in {r.calls[i] : i \in DOMAIN r.calls}
                          /\ r.outs[2] = "ok"
                       THEN icon_path ELSE PyNone]

----------------------------------------------------------------------------
(* Inputs *)

Hosts == {"localhost", "example.com"}
Ports == {PyNone, PyInt(80), PyInt(443), PyInt(8080)}
\* (user, password) pairs
Credentials ==
    { [user |-> PyNone, password |-> PyNone],
      [user |-> PyStr(<<"u">>), password |-> PyNone],
      [user |-> PyStr(<<"u", "@">>), password |-> PyStr(<<"p">>)] }
FullpathArgs ==
    {Absent, PyNone, PyInt(5), PyStr(<<>>), PyStr(<<"p">>), PyStr(<<"/">>),
     PyStr(<<"/", "p">>)}
Dicts ==
    { EmptyDict,
      ("X-Api" :> "abc"),
      ("Content-Type" :> "text/plain"),
      ("X-Api" :> "abc") @@ ("Content-Type" :> "text/plain") }
HeaderArgs == {[given |-> FALSE, d |-> EmptyDict]}
                \cup {[given |-> TRUE, d |-> d] : d \in Dicts}

JSONKwargs ==
    { [secure |-> sec, host |-> h, port |-> p, user |-> c.user,
       password |-> c.password, fullpath |-> fp] :
        sec \in BOOLEAN, h \in Hosts, p \in Ports, c \in Credentials,
        fp \in FullpathArgs }

\* (body, title, notify_type) of a send call
SendArgs ==
    { [body |-> PyStr(<<"b">>), title |-> PyStr(<<"t">>), type |-> "warning"],
      [body |-> PyObj, title |-> PyStr(<<>>), type |-> "info"] }

\* What requests.post can do: answer with a status code, raise a
\* requests.RequestException, or raise any other exception.
PostOutcomes ==
    {[kind |-> "status", code |-> c] : c \in {200, 404, 999}}
        \cup {[kind |-> "RequestException", code |-> 0],
              [kind |-> "Exception", code |-> 0]}

JSONFaults == [throttle : {"ok", "raise"}, post : PostOutcomes]

UrgencyArgs ==
    {PyNone, PyInt(-1), PyInt(LOW), PyInt(NORMAL), PyInt(HIGH), PyInt(3),
     PyBool(TRUE), PyStr(<<"h">>)}

\* What each call into the notification facility, the image lookup and the
\* throttle hook does, and what the image lookup returns.
GnomeFaults == [GnomeCalls -> {"ok", "raise"}]
IconPaths == {PyNone, PyStr(<<"i", ".", "i", "c", "o">>)}

NoInstance == [cls |-> "none"]
NoSend == [who |-> "none", ret |-> "none", calls |-> <<>>, outs |-> <<>>,
           status |-> 0, posts |-> <<>>, logs |-> <<>>, icon_path |-> PyNone]
NoUrl == [valid |-> FALSE]
NoParsed == [valid |-> FALSE]

----------------------------------------------------------------------------
(* State machine *)

Init ==
    /\ self = NoInstance
    /\ made = NoInstance
    /\ arg = NoInstance
    /\ last = NoSend
    /\ url = NoUrl
    /\ parsed = NoParsed
    /\ nsends = 0

\* n = NotifyJSON(headers=..., **kwargs)
JSONConstruct ==
    /\ self.cls = "none"
    /\ \E headers \in HeaderArgs, kwargs \in JSONKwargs :
         /\ self' = NotifyJSON_init(headers, kwargs)
         /\ made' = NotifyJSON_init(headers, kwargs)
         /\ arg' = [headers |-> headers, kwargs |-> kwargs]
    /\ UNCHANGED <<last, url, parsed, nsends>>

\* n.send(body, title, notify_type)
JSONSend ==
    /\ self.cls = "NotifyJSON"
    /\ nsends < MaxSends
    /\ \E a \in SendArgs, f \in JSONFaults :
         LET r == NotifyJSON_send(self, a.body, a.title, a.type, f)
         IN  /\ self' = r.self
             /\ last' = [r EXCEPT !.self = NoInstance]
    /\ nsends' = nsends + 1
    /\ UNCHANGED <<made, arg, url, parsed>>

\* u = n.url()
JSONUrl ==
    /\ self.cls = "NotifyJSON"
    /\ url' = NotifyJSON_url(self)
    /\ UNCHANGED <<self, made, arg, last, parsed, nsends>>

\* NotifyJSON.parse_url(u)
JSONParseUrl ==
    /\ self.cls = "NotifyJSON"
    /\ url.valid
    /\ parsed' = NotifyJSON_parse_url(url)
    /\ UNCHANGED <<self, made, arg, last, url, nsends>>

\* n = NotifyGnome(urgency=...)
GnomeConstruct ==
    /\ self.cls = "none"
    /\ \E urgency \in UrgencyArgs, flag \in BOOLEAN :
         /\ self' = NotifyGnome_init(urgency, flag)
         /\ made' = NotifyGnome_init(urgency, flag)
         /\ arg' = [urgency |-> urgency, flag |-> flag]
    /\ UNCHANGED <<last, url, parsed, nsends>>

\* n.send(body, title, notify_type)
GnomeSend ==
    /\ self.cls = "NotifyGnome"
    /\ nsends < MaxSends
    /\ \E a \in SendArgs, f \in GnomeFaults, icon_path \in IconPaths :
         LET r == NotifyGnome_send(self, a.body, a.title, a.type, f, icon_path)
         IN  /\ self' = r.self
             /\ last' = [r EXCEPT !.self = NoInstance]
    /\ nsends' = nsends + 1
    /\ UNCHANGED <<made, arg, url, parsed>>

Next ==
    \/ JSONConstruct
    \/ GnomeConstruct
    \/ GnomeSend
    \/ JSONSend
    \/ JSONUrl
    \/ JSONParseUrl

Spec == Init /\ [][Next]_vars

----------------------------------------------------------------------------
(* Properties *)

\* Helpers over the record of the last send
CallNames == {last.calls[i] : i \in DOMAIN last.calls}
CallCount(name) == Cardinality({i \in DOMAIN last.calls : last.calls[i] = name})
Raised(names) ==
    \E i \in DOMAIN last.calls : last.calls[i] \in names /\ last.outs[i] = "raise"
IconCallNames == {"Pixbuf.new_from_file", "set_icon_from_pixbuf",
                  "set_image_from_pixbuf"}
DeliveryCallNames == {"requests.post", "Pixbuf.new_from_file", "show"}
StartsWithSlash(chars) == Len(chars) > 0 /\ chars[1] = "/"

\* C1: no exception ever escapes send: whatever the input and whatever a
\* collaborator does, send of either notifier ends by returning a boolean.
C1_NoExceptionEscapes ==
    last.who \in {"json", "gnome"} => last.ret \in {"True", "False"}

\* C2: for every constructed NotifyJSON instance, parse_url(instance.url())
\* yields headers, host, port, fullpath and secure equal to the instance's.
C2_UrlRoundTrip ==
    (self.cls = "NotifyJSON" /\ parsed.valid) =>
        /\ parsed.headers = self.headers
        /\ parsed.host = self.host
        /\ parsed.port = self.port
        /\ parsed.fullpath = self.fullpath
        /\ parsed.secure = self.secure

\* C3: NotifyJSON.send returns True exactly when the POST completed with the
\* OK status code; it returns False for every other status code, in the
\* status-description table or not, and for every transport error.
C3_SendClassification ==
    last.who = "json" =>
        LET posted == "requests.post" \in CallNames
            answer == IF posted THEN last.outs[Len(last.outs)] ELSE "none"
        IN  /\ last.ret = "True" <=> (answer = "status" /\ last.status = 200)
            /\ (answer = "status" /\ last.status # 200) => last.ret = "False"
            /\ answer = "RequestException" => last.ret = "False"

C3_Witness ==
    /\ last.who = "json"
    /\ "requests.post" \in CallNames
    /\ last.status = 999
    /\ last.ret = "False"

\* C4: with the capability flag false, NotifyGnome.send returns False and
\* calls neither the notification facility, the image decoder, the image
\* lookup nor the throttle hook.
C4_CapabilityGate ==
    (last.who = "gnome" /\ ~self.enabled) =>
        /\ last.ret = "False"
        /\ last.calls = <<>>

C4_Witness ==
    /\ last.who = "gnome"
    /\ ~self.enabled
    /\ last.ret = "False"

\* C5: with the capability flag true, when the icon decoding or an icon
\* attachment raises (also because the image lookup returned no path) and
\* no other call raises, show is still invoked and send returns True.
C5_IconFailureNonFatal ==
    (/\ last.who = "gnome"
     /\ self.enabled
     /\ Raised(IconCallNames)
     /\ ~Raised(CallNames \ IconCallNames)) =>
        /\ "show" \in CallNames
        /\ last.ret = "True"

C5_Witness ==
    /\ last.who = "gnome"
    /\ self.enabled
    /\ last.icon_path = PyNone
    /\ \E i \in DOMAIN last.calls :
         last.calls[i] = "Pixbuf.new_from_file" /\ last.outs[i] = "raise"
    /\ "show" \in CallNames
    /\ last.ret = "True"

C7_HeaderOverlay ==
    \A i \in DOMAIN last.posts :
        LET h == last.posts[i].headers
        IN  /\ DOMAIN h = (DOMAIN self.headers) \cup {"User-Agent", "Content-Type"}
            /\ \A k \in DOMAIN self.headers : h[k] = self.headers[k]
            /\ "User-Agent" \notin DOMAIN self.headers
                 => h["User-Agent"] = "Apprise"
            /\ "Content-Type" \notin DOMAIN self.headers
                 => h["Content-Type"] = "application/json"

C7_Witness ==
    /\ Len(last.posts) = 1
    /\ "Content-Type" \in DOMAIN self.headers
    /\ last.posts[1].headers["Content-Type"] = "text/plain"
    /\ last.posts[1].headers["User-Agent"] = "Apprise"

\* C8 as stated: in every NotifyJSON.send, and every NotifyGnome.send with
\* the capability flag true, the throttle hook is invoked exactly once and
\* before the delivery calls, and each delivery call is made at most once.
C8_ThrottleExactlyOnce ==
    (last.who = "json" \/ (last.who = "gnome" /\ self.enabled)) =>
        /\ CallCount("throttle") = 1
        /\ \A i \in DOMAIN last.calls :
             last.calls[i] \in DeliveryCallNames =>
                \E j \in 1..(i - 1) : last.calls[j] = "throttle"
        /\ \A d \in DeliveryCallNames : CallCount(d) <= 1

\* C8 amended: NotifyJSON.send invokes the throttle hook exactly once;
\* NotifyGnome.send with the capability flag true invokes it exactly once
\* when Notify.init, the image lookup, Notification.new and set_urgency all
\* return, and not at all when one of them raises.  Every delivery call
\* comes after the throttle call and is made at most once per send.
C8_ThrottleBeforeDelivery ==
    (last.who = "json" \/ (last.who = "gnome" /\ self.enabled)) =>
        /\ last.who = "json" => CallCount("throttle") = 1
        /\ last.who = "gnome" =>
             CallCount("throttle") =
                IF Raised({"Notify.init", "image_path", "Notification.new",
                           "set_urgency"})
                THEN 0 ELSE 1
        /\ \A i \in DOMAIN last.calls :
             last.calls[i] \in DeliveryCallNames =>
                \E j \in 1..(i - 1) : last.calls[j] = "throttle"
        /\ \A d \in DeliveryCallNames : CallCount(d) <= 1

C8_Witness ==
    /\ last.who = "gnome"
    /\ self.enabled
    /\ "throttle" \in CallNames
    /\ "show" \in CallNames
    /\ last.ret = "False"

\* C9: send does not change the notifier's configuration: after any
\* sequence of sends the instance's attributes are those the constructor
\* left.
C9_SendKeepsConfig ==
    self = made

C9_Witness ==
    /\ self.cls = "NotifyJSON"
    /\ self.headers # EmptyDict
    /\ nsends >= 2
    /\ Len(last.posts) = 1

\* C10: whatever fullpath argument a NotifyJSON is constructed with, its
\* fullpath is a non-empty string beginning with '/', and so is the path of
\* the URL send posts to.
C10_FullpathInvariant ==
    /\ self.cls = "NotifyJSON" =>
         /\ self.fullpath.t = "str"
         /\ StartsWithSlash(self.fullpath.s)
    /\ \A i \in DOMAIN last.posts : StartsWithSlash(last.posts[i].url.path)

====
